---- MODULE Spec2Model ----
(***************************************************************************)
(* Model of InventoryManager (src/inventory_system.py): the products and   *)
(* transactions tables of InventoryDatabase and the manager operations     *)
(* that read and write them.                                               *)
(*                                                                         *)
(* A product row is projected on the columns the manager's rules read:     *)
(* name, price, quantity, min_stock.  The columns description, category,   *)
(* supplier, created_date and last_updated are stored and returned by the  *)
(* code but never read by a manager rule; update_product still accepts     *)
(* "description" (one of the projected-away columns) as a valid field.     *)
(* Prices are whole cents.  Timestamps are clock ticks.                    *)
(***************************************************************************)
EXTENDS Integers, Sequences, FiniteSets, TLC

VARIABLES products, product_seq, transactions, clock, last

vars == <<products, product_seq, transactions, clock, last>>

(* ---------------------------- bounds ---------------------------------- *)
MaxProducts == 2          \* rows ever inserted into products
MaxTxns == 3              \* ledger writes ever attempted

(* ---------------------------- inputs ---------------------------------- *)
Names == {"", "a"}
Prices == {5}
InitQuantities == {0, 1}
Deltas == {-1, 0, 1, 2}
UpdQuantities == {2}
MinStocks == {1}
ProductIds == 0..MaxProducts      \* ids a caller passes; 0 is never a rowid
StockPrice == 0           \* add_stock / remove_stock default price

(* ------------------------- InventoryDatabase --------------------------- *)
\* SELECT * FROM products WHERE id = ?
SelectById(prods, product_id) == {i \in DOMAIN prods : i = product_id}

\* SELECT * FROM products WHERE name = ?
SelectByName(prods, name) == {i \in DOMAIN prods : prods[i].name = name}

Min(S) == CHOOSE x \in S : \A y \in S : x <= y

\* results[0] if results else None; rows come back in rowid order.
\* 0 stands for None (rowids start at 1).
get_product_by_name(prods, name) ==
    IF SelectByName(prods, name) = {} THEN 0 ELSE Min(SelectByName(prods, name))

get_product_by_id(prods, product_id) ==
    IF SelectById(prods, product_id) = {} THEN 0 ELSE product_id

\* InsertProduct without AUTOINCREMENT: the new rowid is one above the
\* largest rowid still in the table, so the id of a deleted last row returns
InsertProduct_rowid(prods, seq, row) ==
    LET id == IF DOMAIN prods = {} THEN 1
              ELSE 1 + CHOOSE x \in DOMAIN prods : \A y \in DOMAIN prods : y <= x
    IN [i \in DOMAIN prods \cup {id} |-> IF i = id THEN row ELSE prods[i]]

\* INSERT INTO products ...: AUTOINCREMENT gives the row the id seq + 1
InsertProduct(prods, seq, row) ==
    [i \in DOMAIN prods \cup {seq + 1} |-> IF i = seq + 1 THEN row ELSE prods[i]]

\* DELETE FROM products WHERE id = ?
DeleteRows(prods, product_id) ==
    [i \in DOMAIN prods \ {product_id} |-> prods[i]]

\* INSERT INTO transactions ...: the row id is its position in the table
_log_transaction(txns, product_id, transaction_type, quantity, price, date, notes) ==
    Append(txns, [product_id |-> product_id,
                  transaction_type |-> transaction_type,
                  quantity |-> quantity,
                  price |-> price,
                  date |-> date,
                  notes |-> notes])

(* ----------------------- get_transaction_history ----------------------- *)
\* FROM transactions t JOIN products p ON t.product_id = p.id
\* [WHERE t.product_id = ?]: the WHERE clause is used only "if product_id",
\* so None and 0 both select the unfiltered query.  The set of rowids of t.
JoinedIds(prods, txns, product_id) ==
    {i \in 1..Len(txns) :
        /\ txns[i].product_id \in DOMAIN prods
        /\ (product_id # 0 => txns[i].product_id = product_id)}

\* SELECT t.*, p.name as product_name
JoinedRow(prods, txns, i) ==
    [id |-> i,
     product_id |-> txns[i].product_id,
     transaction_type |-> txns[i].transaction_type,
     quantity |-> txns[i].quantity,
     price |-> txns[i].price,
     date |-> txns[i].date,
     notes |-> txns[i].notes,
     product_name |-> prods[txns[i].product_id].name]

\* ORDER BY t.date DESC: the place of row i in the result.  SQL leaves the
\* order of equal dates open; SQLite's sorter returns them in rowid order.
Rank(txns, J, i) ==
    1 + Cardinality({j \in J : \/ txns[j].date > txns[i].date
                                \/ (txns[j].date = txns[i].date /\ j < i)})

get_transaction_history(prods, txns, product_id) ==
    LET J == JoinedIds(prods, txns, product_id)
    IN [k \in 1..Cardinality(J) |->
           JoinedRow(prods, txns, CHOOSE i \in J : Rank(txns, J, i) = k)]

(* ------------------------ get_low_stock_products ----------------------- *)
\* the query with the threshold itself left out of the low-stock rows
get_low_stock_products_strict(prods) ==
    {i \in DOMAIN prods : prods[i].quantity < prods[i].min_stock}

\* SELECT * FROM products WHERE quantity <= min_stock: the rowids of the rows
get_low_stock_products(prods) ==
    {i \in DOMAIN prods : prods[i].quantity <= prods[i].min_stock}

(* ----------------------- generate_inventory_report --------------------- *)
\* the place of a name in the BINARY collation of the name column
NameRank(name) == IF name = "" THEN 0 ELSE 1

\* ORDER BY name: the place of row i in get_all_products; rows of equal name
\* come back in rowid order
NamePlace(prods, i) ==
    1 + Cardinality({j \in DOMAIN prods :
                        \/ NameRank(prods[j].name) < NameRank(prods[i].name)
                        \/ (NameRank(prods[j].name) = NameRank(prods[i].name) /\ j < i)})

\* SELECT * FROM products ORDER BY name
get_all_products(prods) ==
    [k \in 1..Cardinality(DOMAIN prods) |->
        prods[CHOOSE i \in DOMAIN prods : NamePlace(prods, i) = k]]

\* sum(p['price'] * p['quantity'] for p in products), in cents
RECURSIVE total_value(_)
total_value(rows) ==
    IF rows = <<>> THEN 0
    ELSE rows[1].price * rows[1].quantity + total_value(Tail(rows))

\* round(total_value) with the number of digits left out: whole currency
\* units, halves up
round_units(cents) ==
    ((cents + 50) \div 100) * 100

\* round(total_value, 2) of an amount given in cents: the nearest cent
round(cents) ==
    (2 * cents + 1) \div 2

\* the report without its per-category part (category is not in the rows)
generate_inventory_report(prods) ==
    [total_products |-> Len(get_all_products(prods)),
     total_inventory_value |-> round(total_value(get_all_products(prods))),
     low_stock_count |-> Cardinality(get_low_stock_products(prods)),
     low_stock_products |-> get_low_stock_products(prods)]

(* --------------------------- update_product ---------------------------- *)
valid_fields == {"name", "description", "price", "quantity", "min_stock"}
KwargFields == valid_fields \cup {"colour"}

\* kwargs: every field maps to <<>> (not supplied) or <<value>>
NoKwargs == [f \in KwargFields |-> <<>>]
Kwarg(f, v) == [NoKwargs EXCEPT ![f] = <<v>>]
KwargsSet ==
    {NoKwargs}
    \cup {Kwarg("name", n) : n \in Names}
    \cup {Kwarg("quantity", q) : q \in UpdQuantities}
    \cup {Kwarg("description", "d"), Kwarg("colour", "x")}
    \cup {[Kwarg("price", p) EXCEPT !["min_stock"] = <<m>>] : p \in Prices, m \in MinStocks}

\* the "field = ?" assignments built by the loop over kwargs.items()
updates(kwargs) == {f \in KwargFields : kwargs[f] # <<>> /\ f \in valid_fields}

SetField(row, kwargs, f) == IF f \in updates(kwargs) THEN kwargs[f][1] ELSE row[f]

\* UPDATE products SET ... WHERE id = ?
UpdateRows(prods, product_id, kwargs) ==
    [i \in DOMAIN prods |->
        IF i = product_id
        THEN [name |-> SetField(prods[i], kwargs, "name"),
              price |-> SetField(prods[i], kwargs, "price"),
              quantity |-> SetField(prods[i], kwargs, "quantity"),
              min_stock |-> SetField(prods[i], kwargs, "min_stock")]
        ELSE prods[i]]

(* ------------------------------ state ---------------------------------- *)
\* The last manager call: which method, its return value, what it printed.
Call(op, ret, printed) == [op |-> op, ret |-> ret, printed |-> printed]

Ticks == {0, 1}           \* clock advance seen by one datetime.now() read
Advancing == {1}
NoFault == {FALSE}        \* a store write raises (TRUE) or not (FALSE)

Init ==
    /\ products = [i \in {} |-> 0]
    /\ product_seq = 0
    /\ transactions = <<>>
    /\ clock = 0
    /\ last = Call("init", TRUE, <<>>)

(* ---------------------------- add_product ------------------------------ *)
\* f1: the INSERT INTO products raises; f2: the INSERT INTO transactions raises
add_product(name, price, quantity, min_stock, f1, f2, d) ==
    /\ product_seq < MaxProducts
    /\ Len(transactions) < MaxTxns /\ clock < MaxTxns
    /\ IF f1
       THEN /\ UNCHANGED <<products, product_seq, transactions, clock>>
            /\ last' = Call("add_product", FALSE, <<"Error adding product">>)
       ELSE LET row == [name |-> name, price |-> price, quantity |-> quantity,
                        min_stock |-> min_stock]
                prods1 == InsertProduct(products, product_seq, row)
                id == get_product_by_name(prods1, name)
            IN /\ products' = prods1
               /\ product_seq' = product_seq + 1
               /\ clock' = clock + d
               /\ IF f2
                  THEN /\ UNCHANGED transactions
                       /\ last' = Call("add_product", FALSE, <<"Error adding product">>)
                  ELSE /\ transactions' = _log_transaction(transactions, id,
                                              "INITIAL_STOCK", quantity, price,
                                              clock + d, <<"Initial stock for", name>>)
                       /\ last' = Call("add_product", TRUE, <<>>)

(* --------------------------- update_product ---------------------------- *)
\* the body of update_product as a function of the table: <<table', ret, printed>>
UpdateProduct(prods, product_id, kwargs, f) ==
    IF updates(kwargs) = {} THEN <<prods, FALSE, <<>>>>
    ELSE IF f THEN <<prods, FALSE, <<"Error updating product">>>>
    ELSE <<UpdateRows(prods, product_id, kwargs), TRUE, <<>>>>

update_product(product_id, kwargs, f) ==
    LET r == UpdateProduct(products, product_id, kwargs, f)
    IN /\ products' = r[1]
       /\ last' = Call("update_product", r[2], r[3])
       /\ UNCHANGED <<product_seq, transactions, clock>>

(* --------------------------- delete_product ---------------------------- *)
\* delete_product that also deletes the product's transactions (a cascade)
delete_product_cascade(product_id, f) ==
    /\ IF f
       THEN /\ UNCHANGED <<products, transactions>>
            /\ last' = Call("delete_product", FALSE, <<"Error deleting product">>)
       ELSE LET Kept(t) == t.product_id # product_id
            IN /\ products' = DeleteRows(products, product_id)
               /\ transactions' = SelectSeq(transactions, Kept)
               /\ last' = Call("delete_product", TRUE, <<>>)
    /\ UNCHANGED <<product_seq, clock>>

delete_product(product_id, f) ==
    /\ IF f
       THEN /\ UNCHANGED products
            /\ last' = Call("delete_product", FALSE, <<"Error deleting product">>)
       ELSE /\ products' = DeleteRows(products, product_id)
            /\ last' = Call("delete_product", TRUE, <<>>)
    /\ UNCHANGED <<product_seq, transactions, clock>>

(* ------------------------ add_stock / remove_stock --------------------- *)
\* the part add_stock and remove_stock share after computing new_quantity:
\* update_product(product_id, quantity=new_quantity), whose return value is
\* dropped, then _log_transaction
AdjustStock(op, transaction_type, product_id, quantity, new_quantity, f1, f2, d) ==
    LET r == UpdateProduct(products, product_id, Kwarg("quantity", new_quantity), f1)
    IN /\ Len(transactions) < MaxTxns /\ clock < MaxTxns
       /\ products' = r[1]
       /\ clock' = clock + d
       /\ UNCHANGED product_seq
       /\ IF f2
          THEN /\ UNCHANGED transactions
               /\ last' = Call(op, FALSE,
                               r[3] \o <<IF op = "add_stock"
                                         THEN "Error adding stock"
                                         ELSE "Error removing stock">>)
          ELSE /\ transactions' = _log_transaction(transactions, product_id,
                                      transaction_type, quantity, StockPrice,
                                      clock + d, <<>>)
               /\ last' = Call(op, TRUE, r[3])

NotFound(op) ==
    /\ last' = Call(op, FALSE, <<>>)
    /\ UNCHANGED <<products, product_seq, transactions, clock>>

add_stock(product_id, quantity, f1, f2, d) ==
    IF get_product_by_id(products, product_id) = 0
    THEN NotFound("add_stock")
    ELSE AdjustStock("add_stock", "STOCK_IN", product_id, quantity,
                     products[product_id].quantity + quantity, f1, f2, d)

\* remove_stock without the product['quantity'] < quantity test
remove_stock_unchecked(product_id, quantity, f1, f2, d) ==
    IF get_product_by_id(products, product_id) = 0
    THEN NotFound("remove_stock")
    ELSE AdjustStock("remove_stock", "STOCK_OUT", product_id, quantity,
                     products[product_id].quantity - quantity, f1, f2, d)

remove_stock(product_id, quantity, f1, f2, d) ==
    IF get_product_by_id(products, product_id) = 0
    THEN NotFound("remove_stock")
    ELSE IF products[product_id].quantity < quantity
    THEN /\ last' = Call("remove_stock", FALSE, <<"Insufficient stock available!">>)
         /\ UNCHANGED <<products, product_seq, transactions, clock>>
    ELSE AdjustStock("remove_stock", "STOCK_OUT", product_id, quantity,
                     products[product_id].quantity - quantity, f1, f2, d)

(* --------------------------- specification ----------------------------- *)
\* One manager call with any arguments; T is the set of clock advances and
\* F the set of store-write outcomes the environment can produce.
AddProduct(T, F) ==
    \E name \in Names, price \in Prices, quantity \in InitQuantities,
       min_stock \in MinStocks, f1 \in F, f2 \in F, d \in T :
        add_product(name, price, quantity, min_stock, f1, f2, d)

UpdateProductCall(F) ==
    \E product_id \in ProductIds, kwargs \in KwargsSet, f \in F :
        update_product(product_id, kwargs, f)

DeleteProduct(F) ==
    \E product_id \in ProductIds, f \in F : delete_product(product_id, f)

AddStock(T, F) ==
    \E product_id \in ProductIds, quantity \in Deltas, f1 \in F, f2 \in F, d \in T :
        add_stock(product_id, quantity, f1, f2, d)

RemoveStock(T, F) ==
    \E product_id \in ProductIds, quantity \in Deltas, f1 \in F, f2 \in F, d \in T :
        remove_stock(product_id, quantity, f1, f2, d)

\* the store never fails and the clock advances between any two reads
Next ==
    \/ AddProduct(Advancing, NoFault)
    \/ UpdateProductCall(NoFault)
    \/ DeleteProduct(NoFault)
    \/ AddStock(Advancing, NoFault)
    \/ RemoveStock(Advancing, NoFault)

Spec == Init /\ [][Next]_vars

\* the same calls when any store write may raise (sqlite3.Error out of
\* execute_query); the clock advances between any two reads
Faults == BOOLEAN

FaultDeltas == {1}
FaultKwargs == {Kwarg("name", "a"), Kwarg("quantity", 2)}

FaultNext ==
    \/ AddProduct(Advancing, Faults)
    \/ \E product_id \in ProductIds, kwargs \in FaultKwargs, f \in Faults :
          update_product(product_id, kwargs, f)
    \/ DeleteProduct(Faults)
    \/ \E product_id \in ProductIds, quantity \in FaultDeltas,
          f1 \in Faults, f2 \in Faults, d \in Advancing :
          add_stock(product_id, quantity, f1, f2, d)
    \/ \E product_id \in ProductIds, quantity \in FaultDeltas,
          f1 \in Faults, f2 \in Faults, d \in Advancing :
          remove_stock(product_id, quantity, f1, f2, d)

FaultSpec == Init /\ [][FaultNext]_vars

(* ------------------------------ claims --------------------------------- *)
RowIds == 1..MaxProducts
Live(id) == id \in DOMAIN products
LastRow(txns) == txns[Len(txns)]
InitialStock(h) == {k \in DOMAIN h : h[k].transaction_type = "INITIAL_STOCK"}

\* C1: an add_product call with a non-empty name no live product uses and a
\* quantity q >= 0 that returns True leaves a state where
\* get_product_by_name(name) is a product of quantity q and
\* get_transaction_history(its id) holds exactly one INITIAL_STOCK entry,
\* of quantity q.
C1_AddThenLookup ==
    [][\A name \in Names, price \in Prices, quantity \in InitQuantities,
          min_stock \in MinStocks, d \in Ticks :
          ( /\ last'.op = "add_product" /\ last'.ret
            /\ name # ""
            /\ SelectByName(products, name) = {}
            /\ quantity >= 0
            /\ add_product(name, price, quantity, min_stock, FALSE, FALSE, d) )
          => LET id == get_product_by_name(products', name)
                 h == get_transaction_history(products', transactions', id)
             IN /\ id # 0
                /\ products'[id].quantity = quantity
                /\ Cardinality(InitialStock(h)) = 1
                /\ \A k \in InitialStock(h) : h[k].quantity = quantity]_vars

\* C1 witness: add_product has just returned True for a non-empty name that
\* only the new row carries, with quantity 1, next to another live product.
C1_Witness ==
    /\ last.op = "add_product" /\ last.ret
    /\ Live(product_seq)
    /\ products[product_seq].name # ""
    /\ SelectByName(products, products[product_seq].name) = {product_seq}
    /\ Cardinality(DOMAIN products) = 2
    /\ products[product_seq].quantity = 1
    /\ Cardinality(InitialStock(
           get_transaction_history(products, transactions, product_seq))) = 1

\* C2: on a live product of quantity n, add_stock(id, q1) directly followed
\* by remove_stock(id, q2) with 0 < q2 <= q1 both return True, leave quantity
\* n + q1 - q2 and append STOCK_IN q1 then STOCK_OUT q2.  Stated per step:
\* the add_stock step returns True, adds q1 and appends STOCK_IN q1; the
\* remove_stock step taken right after it returns True, subtracts q2 and
\* appends STOCK_OUT q2.
C2_InThenOut ==
    [][\A id \in RowIds, q1 \in Deltas, q2 \in Deltas, d \in Ticks :
          /\ ( /\ last'.op = "add_stock"
               /\ Live(id) /\ q1 > 0
               /\ add_stock(id, q1, FALSE, FALSE, d) )
             => /\ last'.ret
                /\ products'[id].quantity = products[id].quantity + q1
                /\ Len(transactions') = Len(transactions) + 1
                /\ SubSeq(transactions', 1, Len(transactions)) = transactions
                /\ LastRow(transactions').product_id = id
                /\ LastRow(transactions').transaction_type = "STOCK_IN"
                /\ LastRow(transactions').quantity = q1
          /\ ( /\ last.op = "add_stock" /\ last.ret
               /\ last'.op = "remove_stock"
               /\ transactions # <<>>
               /\ LastRow(transactions).product_id = id
               /\ LastRow(transactions).quantity = q1
               /\ 0 < q2 /\ q2 <= q1
               /\ remove_stock(id, q2, FALSE, FALSE, d) )
             => /\ last'.ret
                /\ products'[id].quantity = products[id].quantity - q2
                /\ Len(transactions') = Len(transactions) + 1
                /\ SubSeq(transactions', 1, Len(transactions)) = transactions
                /\ LastRow(transactions').product_id = id
                /\ LastRow(transactions').transaction_type = "STOCK_OUT"
                /\ LastRow(transactions').quantity = q2]_vars

\* C3: remove_stock(id, q) on a live product with q above its quantity
\* returns False after printing the insufficient-stock message and changes
\* neither the products table nor the ledger.
C3_InsufficientStock ==
    [][\A id \in RowIds, q \in Deltas, d \in Ticks :
          ( /\ last'.op = "remove_stock"
            /\ Live(id) /\ q > products[id].quantity
            /\ remove_stock(id, q, FALSE, FALSE, d) )
          => /\ ~last'.ret
             /\ last'.printed = <<"Insufficient stock available!">>
             /\ products' = products
             /\ transactions' = transactions]_vars

\* C3 witness: remove_stock has just refused a request on a product that is
\* still live and holds stock, with entries already in the ledger.
C3_Witness ==
    /\ last.op = "remove_stock" /\ ~last.ret
    /\ last.printed = <<"Insufficient stock available!">>
    /\ \E id \in RowIds : Live(id) /\ products[id].quantity = 1
    /\ Len(transactions) >= 2

\* C4: add_stock and remove_stock on a live product with delta <= 0 return
\* False and change neither the products table nor the ledger.
C4_InvalidQuantity ==
    [][\A id \in RowIds, delta \in Deltas, d \in Ticks :
          ( /\ last'.op \in {"add_stock", "remove_stock"}
            /\ Live(id) /\ delta <= 0
            /\ \/ add_stock(id, delta, FALSE, FALSE, d)
               \/ remove_stock(id, delta, FALSE, FALSE, d) )
          => /\ ~last'.ret
             /\ products' = products
             /\ transactions' = transactions]_vars

\* C5: add_product with the name of a live product returns False, inserts no
\* product row and appends no ledger entry.
C5_DuplicateName ==
    [][\A name \in Names, price \in Prices, quantity \in InitQuantities,
          min_stock \in MinStocks, d \in Ticks :
          ( /\ last'.op = "add_product"
            /\ SelectByName(products, name) # {}
            /\ add_product(name, price, quantity, min_stock, FALSE, FALSE, d) )
          => /\ ~last'.ret
             /\ products' = products
             /\ transactions' = transactions]_vars

\* C6: every stored ledger entry of a deleted product is among the rows the
\* unfiltered get_transaction_history() returns, in every later state.
C6_OrphansReturned ==
    \A i \in 1..Len(transactions) :
        ~Live(transactions[i].product_id)
        => \E k \in DOMAIN get_transaction_history(products, transactions, 0) :
              get_transaction_history(products, transactions, 0)[k].id = i

\* C7: every live product has quantity >= 0.
C7_QuantityNonNegative ==
    \A id \in DOMAIN products : products[id].quantity >= 0

\* C8: no two live products have the same name.
C8_UniqueNames ==
    \A i \in DOMAIN products, j \in DOMAIN products :
        i # j => products[i].name # products[j].name

\* a call created row id or changed its quantity
QuantityAffected(id) ==
    \/ id \in DOMAIN products' /\ id \notin DOMAIN products
    \/ /\ id \in DOMAIN products' /\ id \in DOMAIN products
       /\ products'[id].quantity # products[id].quantity

\* C9: a call that creates a product or changes a live product's quantity
\* appends exactly one ledger entry, for that product, and a call that
\* appends a ledger entry created that product or changed its quantity.
C9_QuantityPairedWithLedger ==
    [][ /\ \A id \in RowIds :
              QuantityAffected(id)
              => /\ Len(transactions') = Len(transactions) + 1
                 /\ LastRow(transactions').product_id = id
        /\ transactions' # transactions
              => /\ Len(transactions') = Len(transactions) + 1
                 /\ QuantityAffected(LastRow(transactions').product_id) ]_vars

\* C10: update_product, delete_product, add_stock and remove_stock called
\* with an id of no live product return False and change neither the
\* products table nor the ledger.
C10_NotFound ==
    [][\A id \in ProductIds, kwargs \in KwargsSet, q \in Deltas, d \in Ticks :
          ( /\ ~Live(id)
            /\ \/ update_product(id, kwargs, FALSE)
               \/ delete_product(id, FALSE)
               \/ add_stock(id, q, FALSE, FALSE, d)
               \/ remove_stock(id, q, FALSE, FALSE, d) )
          => /\ ~last'.ret
             /\ products' = products
             /\ transactions' = transactions]_vars

\* C11: the stored ledger is append-only: after every call each transaction
\* row that was stored before is still stored at the same rowid with the
\* same product id, type, quantity, price, date and notes, and new rows come
\* after the existing ones.
C11_AppendOnly ==
    [][ /\ Len(transactions') >= Len(transactions)
        /\ \A i \in 1..Len(transactions) : transactions'[i] = transactions[i] ]_vars

\* C11 witness: delete_product has just removed a product that has ledger
\* entries, next to a live product that an update or stock call changed.
C11_Witness ==
    /\ last.op = "delete_product" /\ last.ret
    /\ Len(transactions) = MaxTxns
    /\ \E i \in 1..Len(transactions) : ~Live(transactions[i].product_id)
    /\ \E id \in RowIds : Live(id) /\ products[id].quantity = 2

RECURSIVE ValueOf(_, _)
ValueOf(prods, S) ==
    IF S = {} THEN 0
    ELSE LET i == CHOOSE x \in S : TRUE
         IN prods[i].price * prods[i].quantity + ValueOf(prods, S \ {i})

\* the two sample products priced 999.99 x 15 and 3.99 x 2
SampleProducts ==
    [i \in {1, 2} |->
        IF i = 1 THEN [name |-> "a", price |-> 99999, quantity |-> 15, min_stock |-> 5]
        ELSE [name |-> "", price |-> 399, quantity |-> 2, min_stock |-> 10]]

\* C13: generate_inventory_report gives total_products = the number of live
\* products and total_inventory_value = the sum of price * quantity over the
\* live products (prices in whole cents); 999.99 x 15 and 3.99 x 2 give
\* 15007.83.
C13_ReportTotals ==
    /\ generate_inventory_report(products).total_products
          = Cardinality(DOMAIN products)
    /\ generate_inventory_report(products).total_inventory_value
          = ValueOf(products, DOMAIN products)
    /\ generate_inventory_report(SampleProducts).total_inventory_value = 1500783

\* C13 witness: two live products of the same name with different positive
\* quantities, so the report counts 2 products worth 5 * 1 + 5 * 2 cents.
C13_Witness ==
    /\ Cardinality(DOMAIN products) = 2
    /\ \E i \in DOMAIN products, j \in DOMAIN products :
          /\ products[i].quantity = 1 /\ products[j].quantity = 2
          /\ products[i].name = products[j].name
    /\ generate_inventory_report(products).total_inventory_value = 15

\* C14: update_product, for any id and any supplied fields, changes no
\* product's quantity and appends no ledger entry.
C14_UpdateKeepsQuantity ==
    [][\A id \in ProductIds, kwargs \in KwargsSet :
          ( last'.op = "update_product" /\ update_product(id, kwargs, FALSE) )
          => /\ transactions' = transactions
             /\ DOMAIN products' = DOMAIN products
             /\ \A i \in DOMAIN products :
                   products'[i].quantity = products[i].quantity]_vars

\* C15: every ledger entry has a strictly positive quantity, the
\* INITIAL_STOCK entry of a product added with quantity 0 included.
C15_PositiveEntries ==
    \A i \in 1..Len(transactions) : transactions[i].quantity > 0

\* C19: the INITIAL_STOCK entry appended by a successful add_product carries
\* the id of the product row that call inserted, also when another live
\* product already has the name.
C19_InitialStockOwnRow ==
    [][\A name \in Names, price \in Prices, quantity \in InitQuantities,
          min_stock \in MinStocks, d \in Ticks :
          ( /\ last'.op = "add_product" /\ last'.ret
            /\ add_product(name, price, quantity, min_stock, FALSE, FALSE, d) )
          => /\ Len(transactions') = Len(transactions) + 1
             /\ LastRow(transactions').transaction_type = "INITIAL_STOCK"
             /\ LastRow(transactions').product_id = product_seq'
             /\ product_seq' \in DOMAIN products' \ DOMAIN products]_vars

\* what the ledger says product id holds: INITIAL_STOCK and STOCK_IN
\* quantities minus STOCK_OUT quantities, over the first n rows
RECURSIVE LedgerBalance(_, _, _)
LedgerBalance(txns, id, n) ==
    IF n = 0 THEN 0
    ELSE LedgerBalance(txns, id, n - 1)
         + (IF txns[n].product_id # id THEN 0
            ELSE IF txns[n].transaction_type = "STOCK_OUT" THEN 0 - txns[n].quantity
            ELSE txns[n].quantity)

\* C20: for every live product, quantity = (sum of its INITIAL_STOCK and
\* STOCK_IN quantities) - (sum of its STOCK_OUT quantities) in the ledger.
C20_LedgerReconciles ==
    \A id \in DOMAIN products :
        products[id].quantity = LedgerBalance(transactions, id, Len(transactions))

(* -------- the clock: datetime.now() reads that return equal values ------ *)
\* Two reads of datetime.now() closer together than the clock's resolution
\* return the same value, so consecutive ledger rows can carry one date.
ClockNext ==
    \/ AddProduct(Ticks, NoFault)
    \/ \E product_id \in ProductIds, kwargs \in FaultKwargs :
          update_product(product_id, kwargs, FALSE)
    \/ DeleteProduct(NoFault)
    \/ \E product_id \in ProductIds, quantity \in FaultDeltas, d \in Ticks :
          add_stock(product_id, quantity, FALSE, FALSE, d)
    \/ \E product_id \in ProductIds, quantity \in FaultDeltas, d \in Ticks :
          remove_stock(product_id, quantity, FALSE, FALSE, d)

ClockSpec == Init /\ [][ClockNext]_vars

\* a call that ends in a fatal error returns no bool to its caller
Fatal(call) == call.ret \notin BOOLEAN

\* C16: when the ledger write of add_product fails after the product row was
\* written, the call leaves no product row behind or ends in a fatal error.
C16_AddProductAtomic ==
    [][\A name \in Names, price \in Prices, quantity \in InitQuantities,
          min_stock \in MinStocks, d \in Ticks :
          ( /\ last'.op = "add_product"
            /\ add_product(name, price, quantity, min_stock, FALSE, TRUE, d) )
          => \/ products' = products
             \/ Fatal(last')]_vars

\* C17: no call returns True when one of its store writes failed; when the
\* quantity write inside add_stock or remove_stock fails, the call returns
\* False and appends no STOCK_IN / STOCK_OUT entry.
C17_NoSilentFailure ==
    [][ /\ \A name \in Names, price \in Prices, quantity \in InitQuantities,
             min_stock \in MinStocks, d \in Ticks, f1 \in Faults, f2 \in Faults :
             ( /\ last'.op = "add_product" /\ (f1 \/ f2)
               /\ add_product(name, price, quantity, min_stock, f1, f2, d) )
             => ~last'.ret
        /\ \A id \in ProductIds, kwargs \in KwargsSet :
             ( /\ last'.op \in {"update_product", "delete_product"}
               /\ \/ updates(kwargs) # {} /\ update_product(id, kwargs, TRUE)
                  \/ delete_product(id, TRUE) )
             => ~last'.ret
        /\ \A id \in RowIds, q \in Deltas, d \in Ticks, f2 \in Faults :
             ( /\ last'.op \in {"add_stock", "remove_stock"}
               /\ Live(id)
               /\ \/ add_stock(id, q, TRUE, f2, d)
                  \/ products[id].quantity >= q /\ remove_stock(id, q, TRUE, f2, d) )
             => ~last'.ret /\ transactions' = transactions ]_vars

\* C18: the history of a live product id holds exactly the ledger entries of
\* that id; the filtered and the unfiltered history are in descending date
\* order; and an entry appended later never comes after one appended earlier.
C18_HistoryOrder ==
    \A product_id \in ProductIds :
        LET h == get_transaction_history(products, transactions, product_id)
        IN /\ Live(product_id) =>
                {h[k].id : k \in DOMAIN h}
                    = {i \in DOMAIN transactions :
                          transactions[i].product_id = product_id}
           /\ \A k \in DOMAIN h, l \in DOMAIN h :
                k < l => /\ h[k].date >= h[l].date
                         /\ h[k].id > h[l].id

\* the ids given to product rows by one step
Assigned == DOMAIN products' \ DOMAIN products

\* C21: product ids are never reused.  The AUTOINCREMENT counter never goes
\* down, every id a step assigns lies above the counter's old value (so it
\* differs from every id assigned before, deleted or not), no ledger entry
\* written before the step carries that id, and the history of that id holds
\* only entries written by the step itself.
C21_IdsNeverReused ==
    [][ /\ product_seq' >= product_seq
        /\ \A id \in Assigned :
             LET h == get_transaction_history(products', transactions', id)
             IN /\ id > product_seq
                /\ id <= product_seq'
                /\ \A i \in DOMAIN transactions :
                      transactions[i].product_id # id
                /\ \A k \in DOMAIN h : h[k].id > Len(transactions) ]_vars

\* a product was deleted, its ledger entries are still there, and the last
\* call created a later product
C21_Witness ==
    /\ last.op = "add_product" /\ last.ret
    /\ product_seq = 2
    /\ ~Live(1) /\ Live(2)
    /\ \E i \in DOMAIN transactions : transactions[i].product_id = 1

====
